---- MODULE Spec2Model ----
(***************************************************************************)
(* Model of the NVD ingestion workers of the Threat-Intel repository.      *)
(*                                                                         *)
(*  - the chunked controller fetchNvdDataChunk and its D1 helpers          *)
(*    (src/src/cloudflare/worker-threat-intel-ingest.js, lines 1-378);     *)
(*  - the multi-page controller fetchNvdData of the fetch_stats variant    *)
(*    (src/unnamed/part_002, lines 1-348).                                 *)
(*                                                                         *)
(* In the chunked controller every await is a step, so that an invocation  *)
(* can be killed or overtaken by another one between any two of them; the  *)
(* multi-page controller takes one step per iteration of its loop.         *)
(***************************************************************************)
EXTENDS Integers, Sequences, FiniteSets, TLC

\* ------------------------------------------------------------------ bounds
\* Largest number of items the static upstream holds.
MaxItems == 4
\* pageSize of the request (1000 in the code), scaled down.
PageSize == 2
\* Number of invocations of the handler in one behaviour.
MaxInvocations == 3
\* batchSize of storeVulnerabilitiesInD1 (200 in the code), scaled down.
BatchSize == 1
\* Longest list handed to storeVulnerabilitiesInD1 on its own.
MaxList == 3
\* Calls of sendToLogQueue in one behaviour.
MaxEntries == 5
\* MAX_SUBREQUESTS of sendToLogQueue (45 in the code), scaled down.
MAX_SUBREQUESTS == 2
\* BATCH_SIZE of sendToLogQueue (50 in the code), scaled down.
BATCH_SIZE == 2
\* const MAX_RETRIES = 3
MAX_RETRIES == 3

Procs == {1, 2}
\* cve ids: enough for the largest upstream (five pages in the scenarios).
Ids == 1..(IF MaxItems > 5 * PageSize THEN MaxItems ELSE 5 * PageSize)
NoId == 0
FetchNvdPath == "/fetchnvd"
Paths == {FetchNvdPath, "/other"}

VARIABLES
    \* the upstream API (static during a behaviour)
    total,          \* totalResults
    badItem,        \* offset+1 of the one item that has no cve.id (0: none)
    rppEcho,        \* resultsPerPage echoes the requested pageSize (else: the count returned)
    served,         \* items the upstream hands out (totalResults may overstate them)
    \* D1
    meta,           \* the fetch_metadata row of source 'nvd'
    vulns,          \* vulnerabilities: number of rows per cve_id
    \* time
    clock,          \* Date.now(), one tick per invocation
    \* the invocations of the chunked handler
    pc, nsi, idx, succ, status, hasMore, err, win,
    \* history
    metaAtStart, readFailed, reqs, metaWin, sinkFailed, killedMid,
    \* the multi-page handler of the fetch_stats variant, its table and FaunaDB
    fetchStats,     \* the fetch_stats row of source 'nvd'
    faunaDocs,      \* Vulnerabilities collection: number of documents per cveId
    cpc, startIndex, cstatus, pageFailed, statsAtStart,
    \* the environment of a behaviour
    faulty,         \* D1 statements may throw
    triggers,       \* number of requests the worker receives
    \* more of the chunked handler
    bstart,         \* i of the outer loop of storeVulnerabilitiesInD1
    fault,          \* history: what ended the invocation with an error
    attempts,       \* history: upserts attempted per cve_id in the invocation
    pagesDone,      \* history: pages stored and checkpointed so far
    fetched,        \* history: offsets of the pages fetched and handed to the store
    \* storeVulnerabilitiesInD1 as a function of the table and the list
    uList,          \* the list of records handed to the function
    uRows,          \* the rows of the vulnerabilities table
    uOnce,          \* history: the rows after the first application
    uApplied,       \* history: number of applications so far
    uFailed,        \* history: some upsert threw
    \* src/src/utils/log.js: module state
    logQueue,       \* const logQueue = [] (entries by number, oldest first)
    isSendingLogs,
    batchCounter,
    \* the environment of the logger
    hasQueue,       \* env.MY_QUEUE is bound
    \* the drain in progress (locals of the call of sendToLogQueue that runs it)
    lpc,            \* idle, sending (awaiting sendBatch), backoff (awaiting the timer)
    subrequestsMade, retries, batch,
    \* history of the logger
    nextEntry,      \* calls of sendToLogQueue so far
    calls,          \* sendBatch calls of the current (or last) drain
    batchCalls,     \* sendBatch calls for the current batch
    sent,           \* entries some sendBatch delivered
    discarded,      \* entries of batches given up after the last retry
    capStopped,     \* the last drain ended on the subrequest cap
    lthrew,         \* the draining call of sendToLogQueue threw
    lplan,          \* status the calling handler answers when logging returns
    lreply,         \* status the calling handler answered (0: not yet)
    drains,         \* history: drain loops running
    pushedBusy,     \* history: entries pushed while a drain was running
    \* processVulnerabilityItem as a function of its argument
    rawItem,        \* the shape of the raw item
    out,            \* what the call produced
    applied         \* the call was made

upstreamVars == <<total, badItem, rppEcho, served>>
dbVars == <<meta, vulns>>
procVars == <<pc, nsi, idx, bstart, succ, status, hasMore, err, win>>
histVars == <<metaAtStart, readFailed, reqs, metaWin, sinkFailed, killedMid,
              fault, attempts, pagesDone, fetched>>
cycleVars == <<fetchStats, faunaDocs, cpc, startIndex, cstatus, pageFailed, statsAtStart>>
envVars == <<faulty, triggers>>
upsertVars == <<uList, uRows, uOnce, uApplied, uFailed>>
logVars == <<logQueue, isSendingLogs, batchCounter, hasQueue, lpc, subrequestsMade,
             retries, batch, nextEntry, calls, batchCalls, sent, discarded,
             capStopped, lthrew, lplan, lreply, drains, pushedBusy>>
normVars == <<rawItem, out, applied>>
vars == <<total, badItem, rppEcho, served, meta, vulns, clock,
          pc, nsi, idx, succ, status, hasMore, err, win,
          metaAtStart, readFailed, reqs, metaWin, sinkFailed, killedMid,
          fetchStats, faunaDocs, cpc, startIndex, cstatus, pageFailed, statsAtStart,
          faulty, triggers, bstart, fault, attempts, pagesDone, fetched,
          uList, uRows, uOnce, uApplied, uFailed,
          logQueue, isSendingLogs, batchCounter, hasQueue, lpc, subrequestsMade,
          retries, batch, nextEntry, calls, batchCalls, sent, discarded,
          capStopped, lthrew, lplan, lreply, drains, pushedBusy,
          rawItem, out, applied>>

Min(a, b) == IF a < b THEN a ELSE b
Max(a, b) == IF a > b THEN a ELSE b

\* ---------------------------------------------------------------- upstream
\* The cve.id of the item at 0-based offset k (NoId: the item has none).
ItemAt(k) == IF k + 1 = badItem THEN NoId ELSE k + 1

\* Number of items the upstream returns for startIndex = start.
Returned(start) == Max(0, Min(PageSize, served - start))

\* responseData.vulnerabilities for startIndex = start.
Vulnerabilities(start) == [j \in 1..Returned(start) |-> ItemAt(start + j - 1)]

\* responseData.resultsPerPage for startIndex = start.
ResultsPerPage(start) == IF rppEcho THEN PageSize ELSE Returned(start)

\* ------------------------------------------------------------- normalizer
IsValid(item) == item # NoId

\* vulnerabilities.map(processVulnerabilityItem).filter(Boolean)
ProcessedData(start) == SelectSeq(Vulnerabilities(start), IsValid)

\* ---------------------------------------------------------------------- D1
NoRow == [present |-> FALSE, lft |-> 0, lst |-> 0, items |-> 0, nsi |-> 0]

\* INSERT INTO fetch_metadata ... ON CONFLICT(source) DO UPDATE SET ...
UpsertFetchMetadata(row, excluded) ==
    IF ~row.present
    THEN [present |-> TRUE, lft |-> excluded.lft, lst |-> excluded.lst,
          items |-> excluded.items, nsi |-> excluded.nsi]
    ELSE [present |-> TRUE,
          lft |-> excluded.lft,
          lst |-> IF excluded.items > 0 THEN excluded.lft ELSE row.lst,
          items |-> row.items + excluded.items,
          nsi |-> excluded.nsi]

\* Mutant of UpdateFetchMetadata: INSERT OR REPLACE with the count bound to
\* items_fetched.
UpdateFetchMetadataReplace(row, fetchTime, nextStartIndex) ==
    [present |-> TRUE, lft |-> fetchTime, lst |-> fetchTime,
     items |-> nextStartIndex, nsi |-> nextStartIndex]

\* updateFetchMetadata(d1, source, fetchTime, nextStartIndex):
\* .bind(source, fetchTime, fetchTime, 0, nextStartIndex)
UpdateFetchMetadata(row, fetchTime, nextStartIndex) ==
    UpsertFetchMetadata(row, [lft |-> fetchTime, lst |-> fetchTime,
                              items |-> 0, nsi |-> nextStartIndex])

\* INSERT INTO vulnerabilities ... ON CONFLICT(cve_id) DO UPDATE SET ...
UpsertVulnerability(table, id) ==
    IF table[id] = 0 THEN [table EXCEPT ![id] = 1] ELSE table

\* ------------------------------------------- D1 and FaunaDB of part_002
NoStats == [present |-> FALSE, lft |-> 0, lst |-> 0, items |-> 0]

\* updateLastFetchTime: INSERT INTO fetch_stats ... ON CONFLICT(source) DO UPDATE,
\* .bind(source, fetchTime, fetchTime, 0)
UpdateLastFetchTime(row, fetchTime) ==
    IF ~row.present
    THEN [present |-> TRUE, lft |-> fetchTime, lst |-> fetchTime, items |-> 0]
    ELSE [present |-> TRUE, lft |-> fetchTime, lst |-> fetchTime, items |-> row.items + 0]

\* Vulnerabilities.create({ data: vuln })
FaunaCreate(docs, id) == [docs EXCEPT ![id] = @ + 1]

\* storeVulnerabilitiesInD1 of part_002: the table once the first k records of
\* the list went through the upsert (the loop throws at the first failure).
RECURSIVE UpsertFirst(_, _, _)
UpsertFirst(table, seq, k) ==
    IF k = 0 THEN table
    ELSE UpsertVulnerability(UpsertFirst(table, seq, k - 1), seq[k])

\* storeVulnerabilitiesInFaunaDB: the collection once the first k records of
\* the list were created.
RECURSIVE CreateFirst(_, _, _)
CreateFirst(docs, seq, k) ==
    IF k = 0 THEN docs
    ELSE FaunaCreate(CreateFirst(docs, seq, k - 1), seq[k])

\* Mutant of NewStartIndex: an off-by-one that steps over one item per page.
NewStartIndexSkip(start) == start + ResultsPerPage(start) + 1

\* const newStartIndex = next_start_index + (responseData.resultsPerPage || 0)
NewStartIndex(start) == start + ResultsPerPage(start)

\* Mutant of HasMore: an inclusive comparison.
HasMoreInclusive(start) == NewStartIndex(start) <= total

\* const hasMore = newStartIndex < totalEntries
HasMore(start) == NewStartIndex(start) < total

\* -------------------------------------------------------------------- Init
\* The databases, the clock and the handlers before the first request.
Fresh ==
    /\ meta = NoRow
    /\ vulns = [id \in Ids |-> 0]
    /\ clock = 0
    /\ pc = [p \in Procs |-> "idle"]
    /\ nsi = [p \in Procs |-> 0]
    /\ idx = [p \in Procs |-> 0]
    /\ bstart = [p \in Procs |-> 0]
    /\ succ = [p \in Procs |-> 0]
    /\ status = [p \in Procs |-> 0]
    /\ hasMore = [p \in Procs |-> FALSE]
    /\ err = [p \in Procs |-> FALSE]
    /\ win = [p \in Procs |-> 0]
    /\ metaAtStart = [p \in Procs |-> NoRow]
    /\ readFailed = [p \in Procs |-> FALSE]
    /\ reqs = [p \in Procs |-> 0]
    /\ fault = [p \in Procs |-> "none"]
    /\ attempts = [p \in Procs |-> [id \in Ids |-> 0]]
    /\ pagesDone = 0
    /\ fetched = {}
    /\ metaWin = 0
    /\ sinkFailed = FALSE
    /\ killedMid = FALSE
    /\ fetchStats = NoStats
    /\ faunaDocs = [id \in Ids |-> 0]
    /\ cpc = "idle"
    /\ startIndex = 0
    /\ cstatus = 0
    /\ pageFailed = FALSE
    /\ statsAtStart = NoStats

\* storeVulnerabilitiesInD1 is not under study.
UpsertIdle ==
    /\ uList = <<>>
    /\ uRows = <<>>
    /\ uOnce = <<>>
    /\ uApplied = 0
    /\ uFailed = FALSE

\* No item: what vulnerabilities.map hands over for a hole in the array.
NoItem == [kind |-> "undefined", cve |-> "absent", id |-> "absent",
           descriptions |-> "absent", metrics |-> "absent",
           weaknesses |-> "absent", references |-> "absent",
           v31 |-> "absent", score31 |-> "absent", vec31 |-> "absent",
           sev31 |-> "absent",
           v2 |-> "absent", score2 |-> "absent", vec2 |-> "absent",
           sev2 |-> "absent"]

NoOut == [tag |-> "none", cveId |-> "", description |-> "", baseScore |-> "",
          baseSeverity |-> "", vectorString |-> "", cwe |-> "", refUrls |-> ""]

\* processVulnerabilityItem is not under study.
NormIdle ==
    /\ rawItem = NoItem
    /\ out = NoOut
    /\ applied = FALSE

\* The logger before its first call.
LogFresh ==
    /\ logQueue = <<>>
    /\ isSendingLogs = FALSE
    /\ batchCounter = 0
    /\ lpc = "idle"
    /\ subrequestsMade = 0
    /\ retries = 0
    /\ batch = <<>>
    /\ nextEntry = 0
    /\ calls = 0
    /\ batchCalls = 0
    /\ sent = {}
    /\ discarded = {}
    /\ capStopped = FALSE
    /\ lthrew = FALSE
    /\ lplan = 0
    /\ lreply = 0
    /\ drains = 0
    /\ pushedBusy = {}

\* sendToLogQueue is not under study.
LogIdle == hasQueue = FALSE /\ LogFresh

Init ==
    /\ total \in 0..MaxItems
    /\ badItem \in 0..MaxItems
    /\ badItem <= total
    /\ rppEcho \in BOOLEAN
    /\ served = total
    /\ faulty = TRUE
    /\ triggers = MaxInvocations
    /\ Fresh
    /\ UpsertIdle
    /\ LogIdle
    /\ NormIdle

\* ------------------------------------------------- the chunked invocation
\* pc[p] names the awaited operation invocation p is about to perform:
\*   getMeta   getFetchMetadata                      (line 43)
\*   fetch     fetch(requestURL), response.json()    (lines 70, 87)
\*   store     stmt.bind(...).run() of the next record (line 246)
\*   storeMeta updateFetchMetadata(.., successCount) (line 294)
\*   advance   updateFetchMetadata(.., newStartIndex)(line 111)
\*   count     SELECT COUNT(*) ...                   (line 114)
Active == {"getMeta", "fetch", "store", "storeMeta", "advance", "count"}

\* The outcomes of a D1 statement: it runs (TRUE) or throws (FALSE).
D1Outcomes == IF faulty THEN BOOLEAN ELSE {TRUE}

\* The handler's response: new Response(..., {status}).
Respond(p, st, more, isErr) ==
    /\ pc' = [pc EXCEPT ![p] = "done"]
    /\ status' = [status EXCEPT ![p] = st]
    /\ hasMore' = [hasMore EXCEPT ![p] = more]
    /\ err' = [err EXCEPT ![p] = isErr]

\* Mutant of Route: every path is handed to fetchNvdDataChunk.
RouteAll(path) == "getMeta"

\* if (url.pathname === "/fetchnvd") ... else return 404
Route(path) == IF path = FetchNvdPath THEN "getMeta" ELSE "done"

\* fetch(request, env): routing by url.pathname.
Start(p) ==
    /\ pc[p] \in {"idle", "done", "killed"}
    /\ clock < triggers
    /\ clock' = clock + 1
    /\ nsi' = [nsi EXCEPT ![p] = 0]
    /\ idx' = [idx EXCEPT ![p] = 0]
    /\ bstart' = [bstart EXCEPT ![p] = 0]
    /\ succ' = [succ EXCEPT ![p] = 0]
    /\ win' = [win EXCEPT ![p] = 0]
    /\ metaAtStart' = [metaAtStart EXCEPT ![p] = meta]
    /\ readFailed' = [readFailed EXCEPT ![p] = FALSE]
    /\ reqs' = [reqs EXCEPT ![p] = 0]
    /\ fault' = [fault EXCEPT ![p] = "none"]
    /\ attempts' = [attempts EXCEPT ![p] = [id \in Ids |-> 0]]
    /\ hasMore' = [hasMore EXCEPT ![p] = FALSE]
    /\ err' = [err EXCEPT ![p] = FALSE]
    /\ \E path \in Paths :
          /\ pc' = [pc EXCEPT ![p] = Route(path)]
          /\ status' = [status EXCEPT ![p] = IF path = FetchNvdPath THEN 0 ELSE 404]
    /\ UNCHANGED <<upstreamVars, envVars, dbVars, metaWin, sinkFailed, killedMid,
                   pagesDone, fetched, cycleVars, upsertVars, logVars, normVars>>

\* getFetchMetadata: a failing query is caught and null returned, which the
\* caller destructures like an absent row ({next_start_index = 0} = metadata || {}).
\* The window [now - 30 days, now] is computed right after.
GetFetchMetadata(p) ==
    /\ pc[p] = "getMeta"
    /\ \E ok \in D1Outcomes :
          /\ nsi' = [nsi EXCEPT ![p] = IF ok /\ meta.present THEN meta.nsi ELSE 0]
          /\ readFailed' = [readFailed EXCEPT ![p] = ~ok]
    /\ win' = [win EXCEPT ![p] = clock]
    /\ pc' = [pc EXCEPT ![p] = "fetch"]
    /\ UNCHANGED <<upstreamVars, envVars, dbVars, clock, idx, bstart, succ, status,
                   hasMore, err, metaAtStart, reqs, metaWin, sinkFailed, killedMid,
                   fault, pagesDone, fetched, attempts, cycleVars, upsertVars, logVars, normVars>>

\* Mutant of UpstreamFailed: the request is issued again.
UpstreamRetried(p, outcome) ==
    /\ pc' = pc
    /\ UNCHANGED <<status, hasMore, err, fault>>

\* return { error, nextIndex } on a rejected fetch or !response.ok: the
\* handler answers it with status 200.
UpstreamFailed(p, outcome) ==
    /\ Respond(p, 200, FALSE, TRUE)
    /\ fault' = [fault EXCEPT ![p] = outcome]

\* The offsets of the records of the page requested at start.
PageOffsets(start) == {start + j : j \in 0..(Returned(start) - 1)}

\* The upstream request and what follows it up to the first D1 write.
FetchPage(p) ==
    /\ pc[p] = "fetch"
    /\ reqs' = [reqs EXCEPT ![p] = @ + 1]
    /\ \E outcome \in {"network", "non2xx", "garbled", "ok"} :
          CASE outcome \in {"network", "non2xx"} ->
                  /\ UpstreamFailed(p, outcome)
                  /\ UNCHANGED fetched
            [] outcome = "garbled" ->
                  \* response.json() throws: caught by the handler
                  /\ Respond(p, 500, FALSE, TRUE)
                  /\ fault' = [fault EXCEPT ![p] = outcome]
                  /\ UNCHANGED fetched
            [] outcome = "ok" ->
                  \* storeVulnerabilitiesInD1 returns at once on an empty list
                  /\ pc' = [pc EXCEPT ![p] =
                              IF Len(ProcessedData(nsi[p])) = 0 THEN "advance" ELSE "store"]
                  /\ fetched' = fetched \cup PageOffsets(nsi[p])
                  /\ UNCHANGED <<status, hasMore, err, fault>>
    /\ UNCHANGED <<upstreamVars, envVars, dbVars, clock, nsi, idx, bstart, succ, win,
                   metaAtStart, readFailed, metaWin, sinkFailed, killedMid,
                   pagesDone, attempts, cycleVars, upsertVars, logVars, normVars>>

\* const batch = vulnerabilities.slice(i, i + batchSize), i = bstart[p]
Batch(p) ==
    SubSeq(ProcessedData(nsi[p]), bstart[p] + 1,
           Min(bstart[p] + BatchSize, Len(ProcessedData(nsi[p]))))

\* Mutant of AfterUpsert: a failing upsert ends the loops (an uncaught error
\* or a break in the catch block).
AfterUpsertBreak(ok, last) == IF last \/ ~ok THEN "storeMeta" ELSE "store"

\* Where the insert loops go after one record: the try/catch lies inside the
\* inner loop, so the outcome of the upsert does not matter.
AfterUpsert(ok, last) == IF last THEN "storeMeta" ELSE "store"

\* One iteration of the inner loop of storeVulnerabilitiesInD1 (and, after the
\* last record of a sub-batch, the step of the outer loop).
StoreRecord(p) ==
    /\ pc[p] = "store"
    /\ idx[p] < Len(Batch(p))
    /\ LET rec == Batch(p)[idx[p] + 1]
           endOfBatch == idx[p] + 1 = Len(Batch(p))
           last == endOfBatch /\ bstart[p] + BatchSize >= Len(ProcessedData(nsi[p]))
       IN /\ \E ok \in D1Outcomes :
                /\ IF ok
                   THEN /\ vulns' = UpsertVulnerability(vulns, rec)
                        /\ succ' = [succ EXCEPT ![p] = @ + 1]
                        /\ UNCHANGED sinkFailed
                   ELSE /\ sinkFailed' = TRUE
                        /\ UNCHANGED <<vulns, succ>>
                /\ pc' = [pc EXCEPT ![p] = AfterUpsert(ok, last)]
          /\ attempts' = [attempts EXCEPT ![p][rec] = @ + 1]
          /\ idx' = [idx EXCEPT ![p] = IF endOfBatch THEN 0 ELSE @ + 1]
          /\ bstart' = [bstart EXCEPT ![p] = IF endOfBatch THEN @ + BatchSize ELSE @]
    /\ UNCHANGED <<upstreamVars, envVars, meta, clock, nsi, status, hasMore, err, win,
                   metaAtStart, readFailed, reqs, metaWin, killedMid,
                   fault, pagesDone, fetched, cycleVars, upsertVars, logVars, normVars>>

\* Mutant of MetadataWriteFailed: the error is swallowed (as getFetchMetadata
\* does with its own) and the invocation reports its summary.
MetadataWriteSwallowed(p) ==
    /\ Respond(p, 200, HasMore(nsi[p]), FALSE)
    /\ fault' = [fault EXCEPT ![p] = "metaWrite"]

\* updateFetchMetadata rethrows the error of its statement (line 376); nothing
\* catches it before the handler's catch block, which answers 500.
MetadataWriteFailed(p) ==
    /\ Respond(p, 500, FALSE, TRUE)
    /\ fault' = [fault EXCEPT ![p] = "metaWrite"]

\* The last statement of storeVulnerabilitiesInD1:
\* updateFetchMetadata(d1, 'nvd', new Date().toISOString(), successCount)
StoreUpdateMetadata(p) ==
    /\ pc[p] = "storeMeta"
    /\ \E ok \in D1Outcomes :
          IF ok
          THEN /\ meta' = UpdateFetchMetadata(meta, clock, succ[p])
               /\ metaWin' = win[p]
               /\ pc' = [pc EXCEPT ![p] = "advance"]
               /\ UNCHANGED <<status, hasMore, err, fault>>
          ELSE /\ MetadataWriteFailed(p)
               /\ UNCHANGED <<meta, metaWin>>
    /\ UNCHANGED <<upstreamVars, envVars, vulns, clock, nsi, idx, bstart, succ, win,
                   metaAtStart, readFailed, reqs, sinkFailed, killedMid,
                   pagesDone, fetched, attempts, cycleVars, upsertVars, logVars, normVars>>

\* updateFetchMetadata(d1, source, fetchTime, newStartIndex)
AdvanceMetadata(p) ==
    /\ pc[p] = "advance"
    /\ \E ok \in D1Outcomes :
          IF ok
          THEN /\ meta' = UpdateFetchMetadata(meta, clock, NewStartIndex(nsi[p]))
               /\ metaWin' = win[p]
               /\ pagesDone' = pagesDone + 1
               /\ pc' = [pc EXCEPT ![p] = "count"]
               /\ UNCHANGED <<status, hasMore, err, fault>>
          ELSE /\ MetadataWriteFailed(p)
               /\ UNCHANGED <<meta, metaWin, pagesDone>>
    /\ UNCHANGED <<upstreamVars, envVars, vulns, clock, nsi, idx, bstart, succ, win,
                   metaAtStart, readFailed, reqs, sinkFailed, killedMid,
                   fetched, attempts, cycleVars, upsertVars, logVars, normVars>>

\* The COUNT(*) query and the result object.
CountQuery(p) ==
    /\ pc[p] = "count"
    /\ \E ok \in D1Outcomes :
          IF ok
          THEN /\ Respond(p, 200, HasMore(nsi[p]), FALSE)
               /\ UNCHANGED fault
          ELSE /\ Respond(p, 500, FALSE, TRUE)
               /\ fault' = [fault EXCEPT ![p] = "count"]
    /\ UNCHANGED <<upstreamVars, envVars, dbVars, clock, nsi, idx, bstart, succ, win,
                   metaAtStart, readFailed, reqs, metaWin, sinkFailed, killedMid,
                   pagesDone, fetched, attempts, cycleVars, upsertVars, logVars, normVars>>

\* The runtime ends the invocation at an await (timeout, eviction).
Kill(p) ==
    /\ pc[p] \in Active
    /\ pc' = [pc EXCEPT ![p] = "killed"]
    /\ killedMid' = (killedMid \/ pc[p] \in {"storeMeta", "advance"})
    /\ UNCHANGED <<upstreamVars, envVars, dbVars, clock, nsi, idx, bstart, succ, status,
                   hasMore, err, win, metaAtStart, readFailed, reqs, metaWin, sinkFailed,
                   fault, pagesDone, fetched, attempts, cycleVars, upsertVars, logVars, normVars>>

\* The steps of an invocation that runs to its response.
Steps(p) ==
    \/ Start(p)
    \/ GetFetchMetadata(p)
    \/ FetchPage(p)
    \/ StoreRecord(p)
    \/ StoreUpdateMetadata(p)
    \/ AdvanceMetadata(p)
    \/ CountQuery(p)

Handler(p) ==
    \/ Steps(p)
    \/ Kill(p)

\* Invocations one after the other (a serialized trigger).
Next == Handler(1)

Spec == Init /\ [][Next]_vars

\* Overlapping invocations: the worker itself holds no lock.
NextOverlap == \E p \in Procs : Handler(p)

\* The overlap is explored against one upstream: MaxItems items, all with an id.
InitOverlap == Init /\ total = MaxItems /\ badItem = 0 /\ ~rppEcho

SpecOverlap == InitOverlap /\ [][NextOverlap]_vars

\* Overlapping invocations, one per process, that run to their response
\* against a static upstream whose resultsPerPage counts the records returned;
\* requests and database calls may fail.
NextRace == \E p \in Procs : Steps(p)

InitRace ==
    /\ total = MaxItems
    /\ badItem = 0
    /\ rppEcho = FALSE
    /\ served = total
    /\ faulty = TRUE
    /\ triggers = Cardinality(Procs)
    /\ Fresh
    /\ UpsertIdle
    /\ LogIdle
    /\ NormIdle

SpecRace == InitRace /\ [][NextRace]_vars

\* The result object of an invocation that got as far as building it.
Result(p) ==
    [totalEntries |-> total,
     processedEntries |-> Len(ProcessedData(nsi[p])),
     newStartIndex |-> NewStartIndex(nsi[p]),
     hasMore |-> HasMore(nsi[p])]

\* The scenarios of three and five full pages: D1 works and no invocation is
\* killed; the upstream may still fail. One trigger per page.
NextScenario == Steps(1)

InitScenario ==
    /\ total \in {3 * PageSize, 5 * PageSize}
    /\ badItem = 0
    /\ rppEcho \in BOOLEAN
    /\ served = total
    /\ faulty = FALSE
    /\ triggers = 5
    /\ Fresh
    /\ UpsertIdle
    /\ LogIdle
    /\ NormIdle

SpecScenario == InitScenario /\ [][NextScenario]_vars

\* --------------------------------- the multi-page invocation (part_002)
\* cpc names the place of the invocation of fetch / fetchNvdData:
\*   getLast  getLastFetchTime                           (line 54)
\*   page     one iteration of while (hasMoreData)       (lines 70-148)
\*   update   updateLastFetchTime after the loop         (lines 151-152)
\* sendToLogQueue never throws (it catches every error of its drain), so the
\* log calls between these steps change nothing here.
CycleRespond(st) ==
    /\ cpc' = "done"
    /\ cstatus' = st

\* fetch(request, env) of part_002: routing by url.pathname.
CycleStart ==
    /\ cpc \in {"idle", "done"}
    /\ clock < triggers
    /\ clock' = clock + 1
    /\ startIndex' = 0
    /\ pageFailed' = FALSE
    /\ statsAtStart' = fetchStats
    /\ \E path \in Paths :
          IF path = FetchNvdPath
          THEN /\ cpc' = "getLast"
               /\ cstatus' = 0
          ELSE CycleRespond(404)
    /\ UNCHANGED <<upstreamVars, envVars, upsertVars, logVars, normVars, dbVars, procVars, histVars, fetchStats, faunaDocs>>

\* getLastFetchTime: a failing query is logged and rethrown.
GetLastFetchTime ==
    /\ cpc = "getLast"
    /\ \E ok \in D1Outcomes :
          IF ok
          THEN /\ cpc' = "page"
               /\ UNCHANGED cstatus
          ELSE CycleRespond(500)
    /\ UNCHANGED <<upstreamVars, envVars, upsertVars, logVars, normVars, dbVars, clock, procVars, histVars,
                   fetchStats, faunaDocs, startIndex, pageFailed, statsAtStart>>

\* Mutant of AdvancedIndex: the offset stays where it is.
AdvancedIndexStuck(si) == si

\* startIndex += responseData.resultsPerPage
AdvancedIndex(si) == si + ResultsPerPage(si)

\* One iteration of the pagination loop: request, JSON.parse, normalize,
\* storeVulnerabilitiesInD1 (the first failing record throws),
\* storeVulnerabilitiesInFaunaDB (likewise), then startIndex and hasMoreData.
\* d and f are the numbers of records that reached D1 and FaunaDB.
CyclePage ==
    /\ cpc = "page"
    /\ \E outcome \in {"network", "non2xx", "garbled", "ok"} :
          CASE outcome \in {"network", "non2xx"} ->
                  \* break: the loop ends and the code after it runs
                  /\ pageFailed' = TRUE
                  /\ cpc' = "update"
                  /\ UNCHANGED <<vulns, faunaDocs, startIndex, cstatus>>
            [] outcome = "garbled" ->
                  /\ CycleRespond(500)
                  /\ UNCHANGED <<vulns, faunaDocs, startIndex, pageFailed>>
            [] outcome = "ok" ->
                  LET data == ProcessedData(startIndex) IN
                  IF Returned(startIndex) > 0
                  THEN \E d \in 0..Len(data) :
                       \E f \in 0..Len(data) :
                          /\ d < Len(data) => f = 0
                          /\ vulns' = UpsertFirst(vulns, data, d)
                          /\ faunaDocs' = CreateFirst(faunaDocs, data, f)
                          /\ IF d < Len(data) \/ f < Len(data)
                             THEN /\ CycleRespond(500)
                                  /\ UNCHANGED startIndex
                             ELSE /\ startIndex' = AdvancedIndex(startIndex)
                                  /\ cpc' = IF AdvancedIndex(startIndex) < total
                                            THEN "page" ELSE "update"
                                  /\ UNCHANGED cstatus
                          /\ UNCHANGED pageFailed
                  ELSE /\ cpc' = "update"
                       /\ UNCHANGED <<vulns, faunaDocs, startIndex, cstatus, pageFailed>>
    /\ UNCHANGED <<upstreamVars, envVars, upsertVars, logVars, normVars, meta, clock, procVars, histVars, fetchStats, statsAtStart>>

\* updateLastFetchTime(d1, source, new Date().toISOString(), env), then the
\* handler answers 200 "NVD data fetched successfully."
CycleUpdate ==
    /\ cpc = "update"
    /\ \E ok \in D1Outcomes :
          IF ok
          THEN /\ fetchStats' = UpdateLastFetchTime(fetchStats, clock)
               /\ CycleRespond(200)
          ELSE /\ CycleRespond(500)
               /\ UNCHANGED fetchStats
    /\ UNCHANGED <<upstreamVars, envVars, upsertVars, logVars, normVars, dbVars, clock, procVars, histVars,
                   faunaDocs, startIndex, pageFailed, statsAtStart>>

NextCycle ==
    \/ CycleStart
    \/ GetLastFetchTime
    \/ CyclePage
    \/ CycleUpdate

SpecCycle == Init /\ [][NextCycle]_vars

\* The multi-page invocation against every upstream of the model: totalResults
\* exact or overstated, resultsPerPage echoed or counted, requests, parses and
\* database calls that may fail.
InitPaging ==
    /\ total \in 0..MaxItems
    /\ served \in 0..total
    /\ badItem \in 0..MaxItems
    /\ badItem <= total
    /\ rppEcho \in BOOLEAN
    /\ faulty = TRUE
    /\ triggers = MaxInvocations
    /\ Fresh
    /\ UpsertIdle
    /\ LogIdle
    /\ NormIdle

SpecPaging == InitPaging /\ [][NextCycle]_vars

\* An upstream whose totalResults overstates what it hands out: pages from
\* offset served on come back with no records.
InitStale ==
    /\ total \in 1..MaxItems
    /\ served \in 0..total
    /\ badItem = 0
    /\ rppEcho \in BOOLEAN
    /\ faulty = FALSE
    /\ triggers = MaxInvocations
    /\ Fresh
    /\ UpsertIdle
    /\ LogIdle
    /\ NormIdle

SpecStale == InitStale /\ [][NextScenario]_vars

\* ------------------------- storeVulnerabilitiesInD1 on the table's rows
\* The records of a processed list: cveId, the updatable columns (one value
\* stands for description .. ref_urls) and fetched_at.
Records == [cve_id : {1, 2}, data : {"a", "b"}, fetched_at : {2}]

\* A row the table may hold before the function runs.
OldRow == [cve_id |-> 1, data |-> "old", created_at |-> 1]

HasRow(rows, id) == \E i \in 1..Len(rows) : rows[i].cve_id = id

\* Mutant of UpsertRow: a plain INSERT on a table without the unique key.
UpsertRowInsert(rows, rec) ==
    Append(rows, [cve_id |-> rec.cve_id, data |-> rec.data, created_at |-> rec.fetched_at])

\* INSERT INTO vulnerabilities (...) VALUES (...) ON CONFLICT(cve_id) DO UPDATE
\* SET <every column but cve_id and created_at> = excluded.<column>
UpsertRow(rows, rec) ==
    IF HasRow(rows, rec.cve_id)
    THEN [i \in 1..Len(rows) |->
            IF rows[i].cve_id = rec.cve_id
            THEN [rows[i] EXCEPT !.data = rec.data]
            ELSE rows[i]]
    ELSE Append(rows, [cve_id |-> rec.cve_id, data |-> rec.data,
                       created_at |-> rec.fetched_at])

\* The insert loops from record i on; the upserts of the positions in fails
\* throw and are caught.
RECURSIVE StoreFrom(_, _, _, _)
StoreFrom(rows, list, fails, i) ==
    IF i > Len(list)
    THEN rows
    ELSE StoreFrom(IF i \in fails THEN rows ELSE UpsertRow(rows, list[i]),
                   list, fails, i + 1)

\* storeVulnerabilitiesInD1(d1, vulnerabilities): what it does to the table.
StoreVulnerabilitiesInD1(rows, list, fails) ==
    IF Len(list) = 0 THEN rows ELSE StoreFrom(rows, list, fails, 1)

RECURSIVE Lists(_)
Lists(n) ==
    IF n = 0
    THEN {<<>>}
    ELSE Lists(n - 1) \cup {Append(l, r) : l \in {m \in Lists(n - 1) : Len(m) = n - 1},
                                          r \in Records}

InitUpsert ==
    /\ total = 0
    /\ badItem = 0
    /\ rppEcho = FALSE
    /\ served = total
    /\ faulty = TRUE
    /\ triggers = 0
    /\ Fresh
    /\ uList \in Lists(MaxList)
    /\ uRows \in {<<>>, <<OldRow>>}
    /\ uOnce = <<>>
    /\ uApplied = 0
    /\ uFailed = FALSE
    /\ LogIdle
    /\ NormIdle

\* One application of the function to the current table.
ApplyStore ==
    /\ uApplied < 2
    /\ \E fails \in SUBSET (1..Len(uList)) :
          /\ uRows' = StoreVulnerabilitiesInD1(uRows, uList, fails)
          /\ uFailed' = (uFailed \/ fails # {})
    /\ uOnce' = IF uApplied = 0 THEN uRows' ELSE uOnce
    /\ uApplied' = uApplied + 1
    /\ UNCHANGED <<upstreamVars, envVars, dbVars, clock, procVars, histVars, cycleVars,
                   uList, logVars, normVars>>

NextUpsert == ApplyStore

SpecUpsert == InitUpsert /\ [][NextUpsert]_vars

\* ------------------------------------------ sendToLogQueue (utils/log.js)
\* Everything the logger does not touch.
mainVars == <<upstreamVars, envVars, dbVars, clock, procVars, histVars, cycleVars,
              upsertVars, normVars>>

Elems(seq) == {seq[i] : i \in 1..Len(seq)}

\* logQueue.splice(0, BATCH_SIZE): the entries taken ...
Spliced(q) == SubSeq(q, 1, Min(BATCH_SIZE, Len(q)))
\* Mutant of Rest: the entries taken stay in the array.
RestKeep(q) == q

\* ... and the entries left in the array.
Rest(q) == SubSeq(q, Min(BATCH_SIZE, Len(q)) + 1, Len(q))

\* Mutant of LoopEnds: the loop stops below a full batch.
LoopEndsBelowBatch(q) == Len(q) < BATCH_SIZE

\* while (logQueue.length > 0), negated
LoopEnds(q) == Len(q) = 0

\* Mutant of CanRetry: an inclusive comparison.
CanRetryInclusive(r) == r <= MAX_RETRIES

\* while (retries < MAX_RETRIES)
CanRetry(r) == r < MAX_RETRIES

\* Mutant of SendErrorEscapes: the rejection of sendBatch leaves
\* sendToLogQueue.
SendErrorRethrown == TRUE

\* try { await env.MY_QUEUE.sendBatch(messages) } catch (error) { ... }:
\* the catch block handles the rejection and throws nothing itself.
SendErrorEscapes == FALSE

\* finally { isSendingLogs = false }, the return to the awaiting handler, and
\* the handler's answer: its own, or 500 when the call threw.
DrainEnds(onCap, threw) ==
    /\ isSendingLogs' = FALSE
    /\ lpc' = "idle"
    /\ capStopped' = onCap
    /\ lthrew' = threw
    /\ lreply' = IF threw THEN 500 ELSE lplan
    /\ drains' = drains - 1
    /\ UNCHANGED <<logQueue, batch, batchCounter, retries, calls, batchCalls,
                   pushedBusy>>

\* The outer loop from its head, with made subrequests counted so far: the cap
\* check, then the next batch is spliced off, named and handed to sendBatch.
NextBatch(made) ==
    IF made >= MAX_SUBREQUESTS
    THEN DrainEnds(TRUE, FALSE)
    ELSE IF LoopEnds(logQueue)
    THEN DrainEnds(FALSE, FALSE)
    ELSE /\ batch' = Spliced(logQueue)
         /\ logQueue' = Rest(logQueue)
         /\ batchCounter' = batchCounter + 1
         /\ retries' = 0
         /\ calls' = calls + 1
         /\ batchCalls' = 1
         /\ lpc' = "sending"
         /\ UNCHANGED <<isSendingLogs, capStopped, lthrew, lreply, drains,
                        pushedBusy>>

\* The inner loop after a failed attempt that left r retries counted: another
\* sendBatch for the same batch, or the batch is given up.
RetryOrSkip(r) ==
    IF CanRetry(r)
    THEN /\ retries' = r
         /\ calls' = calls + 1
         /\ batchCalls' = batchCalls + 1
         /\ lpc' = "sending"
         /\ UNCHANGED <<logQueue, batch, batchCounter, isSendingLogs, capStopped,
                        lthrew, lreply, discarded, drains, pushedBusy>>
    ELSE /\ discarded' = discarded \cup Elems(batch)
         /\ NextBatch(subrequestsMade)

\* Mutant of NotConfigured: the binding is not looked at.
NotConfiguredNever == FALSE

\* if (!env?.MY_QUEUE)
NotConfigured == ~hasQueue

\* Mutant of Draining: the flag is not looked at.
DrainingNever == FALSE

\* if (isSendingLogs) return
Draining == isSendingLogs

\* sendToLogQueue without a queue binding: logs and returns.
SendToLogQueueUnbound ==
    /\ NotConfigured
    /\ nextEntry < MaxEntries
    /\ nextEntry' = nextEntry + 1
    /\ UNCHANGED <<mainVars, logQueue, isSendingLogs, batchCounter, hasQueue, lpc,
                   subrequestsMade, retries, batch, calls, batchCalls, sent,
                   discarded, capStopped, lthrew, lplan, lreply, drains,
                   pushedBusy>>

\* sendToLogQueue while a drain is running: the entry is pushed and the call
\* returns.
SendToLogQueueBusy ==
    /\ ~NotConfigured
    /\ Draining
    /\ nextEntry < MaxEntries
    /\ nextEntry' = nextEntry + 1
    /\ logQueue' = Append(logQueue, nextEntry + 1)
    /\ pushedBusy' = pushedBusy \cup {nextEntry + 1}
    /\ UNCHANGED <<mainVars, isSendingLogs, batchCounter, hasQueue, lpc,
                   subrequestsMade, retries, batch, calls, batchCalls, sent,
                   discarded, capStopped, lthrew, lplan, lreply, drains>>

\* sendToLogQueue with no drain running: the entry is pushed, the drain starts
\* and runs up to its first sendBatch. The calling handler awaits it with the
\* answer it is going to give (200, 404 or 500) already decided.
SendToLogQueue ==
    /\ ~NotConfigured
    /\ ~Draining
    /\ nextEntry < MaxEntries
    /\ nextEntry' = nextEntry + 1
    /\ \E st \in {200, 404, 500} : lplan' = st
    /\ LET q == Append(logQueue, nextEntry + 1)
       IN /\ batch' = Spliced(q)
          /\ logQueue' = Rest(q)
    /\ isSendingLogs' = TRUE
    /\ subrequestsMade' = 0
    /\ batchCounter' = batchCounter + 1
    /\ retries' = 0
    /\ calls' = 1
    /\ batchCalls' = 1
    /\ lpc' = "sending"
    /\ capStopped' = FALSE
    /\ lthrew' = FALSE
    /\ lreply' = 0
    /\ drains' = drains + 1
    /\ UNCHANGED <<mainVars, hasQueue, sent, discarded, pushedBusy>>

\* The awaited sendBatch settles.
SendBatchSettles ==
    /\ lpc = "sending"
    /\ \E ok \in BOOLEAN :
          IF ok
          THEN /\ sent' = sent \cup Elems(batch)
               /\ subrequestsMade' = subrequestsMade + 1
               /\ NextBatch(subrequestsMade + 1)
               /\ UNCHANGED discarded
          ELSE IF SendErrorEscapes
          THEN /\ DrainEnds(FALSE, TRUE)
               /\ UNCHANGED <<sent, subrequestsMade, discarded>>
          ELSE IF retries + 1 = MAX_RETRIES
          THEN \* no backoff after the last attempt
               /\ RetryOrSkip(retries + 1)
               /\ UNCHANGED <<sent, subrequestsMade>>
          ELSE /\ retries' = retries + 1
               /\ lpc' = "backoff"
               /\ UNCHANGED <<logQueue, batch, batchCounter, isSendingLogs, calls,
                              batchCalls, capStopped, lthrew, lreply, sent,
                              subrequestsMade, discarded, drains, pushedBusy>>
    /\ UNCHANGED <<mainVars, hasQueue, nextEntry, lplan>>

\* The backoff timer (1000 * retries ms) fires.
BackoffEnds ==
    /\ lpc = "backoff"
    /\ RetryOrSkip(retries)
    /\ UNCHANGED <<mainVars, hasQueue, nextEntry, lplan, sent, subrequestsMade>>

NextLog ==
    \/ SendToLogQueueUnbound
    \/ SendToLogQueueBusy
    \/ SendToLogQueue
    \/ SendBatchSettles
    \/ BackoffEnds

InitLog ==
    /\ total = 0
    /\ badItem = 0
    /\ rppEcho = FALSE
    /\ served = 0
    /\ faulty = TRUE
    /\ triggers = 0
    /\ Fresh
    /\ UpsertIdle
    /\ hasQueue \in BOOLEAN
    /\ LogFresh
    /\ NormIdle

SpecLog == InitLog /\ [][NextLog]_vars

\* ------------------------------------------------ processVulnerabilityItem
\* Raw items by shape. kind: the item itself; cve: item.cve; id: cve.id;
\* descriptions, weaknesses, references: absent, an empty array, an array whose
\* first entry is null, or filled. metrics: absent, {}, { cvssMetricV31: [null] }
\* or filled, and then
\*   v31: cvssMetricV31[0].cvssData absent or an object with baseScore (absent,
\*        0 or positive), vectorString and baseSeverity (absent or given);
\*   v2:  cvssMetricV2[0] absent, an entry without cvssData, or an entry with
\*        cvssData (baseScore, vectorString); baseSeverity is a field of the
\*        entry, beside cvssData.
Items ==
    {it \in [kind : {"undefined", "null", "object"},
             cve : {"absent", "null", "object"},
             id : {"absent", "empty", "CVE"},
             descriptions : {"absent", "empty", "nullEntry", "en", "other"},
             metrics : {"absent", "empty", "nullEntry", "filled"},
             weaknesses : {"absent", "empty", "nullEntry", "cwe"},
             references : {"absent", "empty", "nullEntry", "urls"},
             v31 : {"absent", "data"},
             score31 : {"absent", "zero", "s31"},
             vec31 : {"absent", "vec31"},
             sev31 : {"absent", "sev31"},
             v2 : {"absent", "entry", "data"},
             score2 : {"absent", "zero", "s2"},
             vec2 : {"absent", "vec2"},
             sev2 : {"absent", "sev2"}] :
        /\ it.kind # "object" => it.cve = "absent"
        /\ it.cve # "object" =>
              /\ it.id = "absent"
              /\ it.descriptions = "absent"
              /\ it.metrics = "absent"
              /\ it.weaknesses = "absent"
              /\ it.references = "absent"
        /\ it.metrics # "filled" => (it.v31 = "absent" /\ it.v2 = "absent")
        /\ it.v31 = "absent" =>
              (it.score31 = "absent" /\ it.vec31 = "absent" /\ it.sev31 = "absent")
        /\ it.v2 = "absent" => it.sev2 = "absent"
        /\ it.v2 # "data" => (it.score2 = "absent" /\ it.vec2 = "absent")}

\* The values of the expressions below: "undefined", "null", "", "0" and other
\* strings; "TypeError" stands for an expression that throws.
Falsy(v) == v \in {"undefined", "null", "", "0"}

\* The value read from a field of the given shape.
Val(x) == CASE x = "absent" -> "undefined"
            [] x = "zero" -> "0"
            [] OTHER -> x

\* x || null
OrNull(v) == IF Falsy(v) THEN "null" ELSE v

\* Mutant of CveId: item.cve.id without optional chaining.
CveIdUnchecked(it) ==
    IF it.kind # "object" \/ it.cve # "object"
    THEN "TypeError"
    ELSE CASE it.id = "absent" -> "undefined"
           [] it.id = "empty" -> ""
           [] it.id = "CVE" -> "CVE-1"

\* item?.cve?.id
CveId(it) ==
    IF it.kind # "object" \/ it.cve # "object"
    THEN "undefined"
    ELSE CASE it.id = "absent" -> "undefined"
           [] it.id = "empty" -> ""
           [] it.id = "CVE" -> "CVE-1"

\* cveData.descriptions?.find((d) => d.lang === "en")?.value || ""
Description(it) ==
    CASE it.descriptions \in {"absent", "empty", "other"} -> ""
      [] it.descriptions = "nullEntry" -> "TypeError"     \* d.lang of null
      [] it.descriptions = "en" -> "text"

\* Mutant of MetricsSource: the older version is preferred.
MetricsSourceV2First(it) ==
    IF it.v2 = "data" THEN "v2" ELSE IF it.v31 = "data" THEN "v31" ELSE "none"

\* const metrics = metricsV31 || metricsV2 || {}, with
\* metricsV31 = cveData.metrics?.cvssMetricV31?.[0]?.cvssData and
\* metricsV2 = cveData.metrics?.cvssMetricV2?.[0]?.cvssData
MetricsSource(it) ==
    IF it.v31 = "data" THEN "v31" ELSE IF it.v2 = "data" THEN "v2" ELSE "none"

\* metrics.baseScore || null
BaseScore(it) ==
    OrNull(CASE MetricsSource(it) = "v31" -> Val(it.score31)
             [] MetricsSource(it) = "v2" -> Val(it.score2)
             [] OTHER -> "undefined")

\* metrics.vectorString || null
VectorString(it) ==
    OrNull(CASE MetricsSource(it) = "v31" -> Val(it.vec31)
             [] MetricsSource(it) = "v2" -> Val(it.vec2)
             [] OTHER -> "undefined")

\* metricsV31?.baseSeverity || cveData.metrics?.cvssMetricV2?.[0]?.baseSeverity || null
BaseSeverity(it) ==
    IF ~Falsy(Val(it.sev31)) THEN Val(it.sev31) ELSE OrNull(Val(it.sev2))

\* cveData.weaknesses?.[0]?.description?.[0]?.value || null
Cwe(it) == IF it.weaknesses = "cwe" THEN "CWE-1" ELSE "null"

\* cveData.references?.map((ref) => ref.url).filter(Boolean).join(",") || ""
RefUrls(it) ==
    CASE it.references \in {"absent", "empty"} -> ""
      [] it.references = "nullEntry" -> "TypeError"       \* ref.url of null
      [] it.references = "urls" -> "url1,url2"

\* processVulnerabilityItem(item): tag null for the invalid marker, throw for
\* an exception, record for a record.
ProcessVulnerabilityItem(it) ==
    IF CveId(it) = "TypeError"
    THEN [NoOut EXCEPT !.tag = "throw"]
    ELSE IF Falsy(CveId(it))
    THEN [NoOut EXCEPT !.tag = "null"]
    ELSE IF RefUrls(it) = "TypeError" \/ Description(it) = "TypeError"
    THEN [NoOut EXCEPT !.tag = "throw"]
    ELSE [tag |-> "record", cveId |-> CveId(it), description |-> Description(it),
          baseScore |-> BaseScore(it), baseSeverity |-> BaseSeverity(it),
          vectorString |-> VectorString(it), cwe |-> Cwe(it), refUrls |-> RefUrls(it)]

InitNormalize ==
    /\ total = 0
    /\ badItem = 0
    /\ rppEcho = FALSE
    /\ served = 0
    /\ faulty = TRUE
    /\ triggers = 0
    /\ Fresh
    /\ UpsertIdle
    /\ LogIdle
    /\ rawItem \in Items
    /\ out = NoOut
    /\ applied = FALSE

\* The call.
Normalize ==
    /\ ~applied
    /\ out' = ProcessVulnerabilityItem(rawItem)
    /\ applied' = TRUE
    /\ UNCHANGED <<upstreamVars, envVars, dbVars, clock, procVars, histVars, cycleVars,
                   upsertVars, logVars, rawItem>>

NextNormalize == Normalize

SpecNormalize == InitNormalize /\ [][NextNormalize]_vars

\* ================================================================ claims
\* Invocation p has read the checkpoint (its window is computed right after).
HasRead(p) == win[p] # 0

\* Invocation p has answered 200 with a summary (no error field).
Succeeded(p) == pc[p] = "done" /\ status[p] = 200 /\ ~err[p]

\* The ids the upstream holds.
UpstreamIds == {ItemAt(k) : k \in 0..(served - 1)} \ {NoId}

\* Every upstream id has exactly one row and there is no other row.
SinkComplete == \A id \in Ids : vulns[id] = (IF id \in UpstreamIds THEN 1 ELSE 0)

\* C1 (fetchNvdData, fetch_stats variant): when the request of some page failed
\* (network error or non-2xx), last_fetch_time after the invocation equals its
\* value before the invocation.
C1_NoWindowAdvanceOnFailure ==
    (cpc = "done" /\ pageFailed) => fetchStats.lft = statsAtStart.lft

\* C2 (resume correctness): with invocations killed at any await and re-invoked
\* from the persisted fetch_metadata row alone, an invocation that reports
\* hasMore = false leaves the vulnerabilities table as an uninterrupted run
\* does: one row for every upstream cve_id, none missing, none twice (no
\* upsert having failed, killed or not).
C2_ResumeCorrect ==
    (Succeeded(1) /\ ~hasMore[1] /\ ~sinkFailed) => SinkComplete

\* C2 witness: an invocation was killed after it stored the first of several
\* pages and before its checkpoint write, and a later invocation completed the
\* cycle with the full table.
C2_Witness ==
    /\ killedMid
    /\ total > PageSize /\ badItem = 0
    /\ Succeeded(1) /\ ~hasMore[1] /\ ~sinkFailed
    /\ nsi[1] > 0
    /\ SinkComplete

\* C3: at every point where the invocation can end, the persisted
\* next_start_index is the value read at the start of the invocation or that
\* value plus the resultsPerPage of the page just stored.
C3_ConsistentResumePoint ==
    (HasRead(1) /\ ~readFailed[1]) =>
        meta.nsi \in {nsi[1], nsi[1] + ResultsPerPage(nsi[1])}

\* C4: at most one cycle per source is in flight: no invocation reads the
\* fetch_metadata row while another is between its checkpoint read and its
\* final checkpoint write.
InCycle == {"fetch", "store", "storeMeta", "advance"}

C4_SingleFlight ==
    \A p \in Procs : \A q \in Procs \ {p} : ~(pc[p] \in InCycle /\ pc[q] \in InCycle)

\* C5: last_fetch_time advances only on full cycle completion: an invocation
\* that stored a page and reports hasMore = true leaves it unchanged, and only
\* an invocation whose page ends the cycle (hasMore = false) changes it.
C5_WindowOnlyOnCompletion ==
    /\ (Succeeded(1) /\ hasMore[1]) => meta.lft = metaAtStart[1].lft
    /\ (HasRead(1) /\ ~readFailed[1] /\ meta.lft # metaAtStart[1].lft) => ~HasMore(nsi[1])

\* C6: an invocation that consumed the final page
\* (next_start_index + resultsPerPage >= totalResults) leaves the persisted
\* next_start_index reset to 0.
C6_ResetOnFinalPage ==
    (Succeeded(1) /\ ~readFailed[1] /\ ~hasMore[1]) => meta.nsi = 0

\* C7: after a page is stored and the checkpoint written, the persisted
\* next_start_index is the value read at the start plus the number of records
\* the page returned (the length of the vulnerabilities array).
C7_AdvanceByReturnedCount ==
    (pc[1] = "count" /\ ~readFailed[1] /\ Returned(nsi[1]) > 0) =>
        meta.nsi = nsi[1] + Returned(nsi[1])

\* C8: after a page is stored, items_fetched has increased by the number of
\* records upserted successfully from that page.
C8_ItemsFetchedAccumulates ==
    (pc[1] \in {"advance", "count"}) => meta.items = metaAtStart[1].items + succ[1]

\* C9: the stored next_start_index is used only under the window it was stored
\* for: an invocation whose window differs from the window of the invocation
\* that wrote the checkpoint starts from offset 0.
C9_OffsetResetOnNewWindow ==
    (pc[1] = "fetch" /\ ~readFailed[1] /\ meta.present /\ win[1] # metaWin) => nsi[1] = 0

\* C10: when the checkpoint read fails the invocation aborts without mutating
\* state: no upstream request, no record stored, fetch_metadata unmodified.
C10_ReadFailureAborts ==
    readFailed[1] =>
        /\ reqs[1] = 0
        /\ pc[1] \notin {"store", "storeMeta", "advance", "count"}
        /\ meta = metaAtStart[1]

\* The cve ids of the page at startIndex = start that pass the normalizer.
PageIds(start) == {ProcessedData(start)[j] : j \in 1..Len(ProcessedData(start))}

\* C11 (fetchNvdDataChunk): when the upstream request fails (network error or
\* non-2xx status) the /fetchnvd handler answers 500, never 200.
C11_UpstreamFailureIs500 ==
    (pc[1] = "done" /\ fault[1] \in {"network", "non2xx"}) => status[1] = 500

\* C12 (fetchNvdData): when the page loop stopped early because a page request
\* failed, the handler does not answer 200.
C12_EarlyStopNotSuccess ==
    (cpc = "done" /\ pageFailed) => cstatus # 200

\* C13 (fetchNvdDataChunk, three full pages upstream, D1 working): once page 1
\* is stored and checkpointed and the request for page 2 got a non-2xx answer,
\* the sink holds exactly the records of page 1, next_start_index is PageSize
\* and last_fetch_time is what it was when the failing invocation began.
C13_FailureOnSecondPage ==
    (total = 3 * PageSize /\ pc[1] = "done" /\ fault[1] = "non2xx" /\ pagesDone = 1)
        => /\ \A id \in Ids : vulns[id] = (IF id \in PageIds(0) THEN 1 ELSE 0)
           /\ meta.nsi = PageSize
           /\ meta.lft = metaAtStart[1].lft

C13_Witness ==
    /\ total = 3 * PageSize
    /\ pc[1] = "done"
    /\ fault[1] = "non2xx"
    /\ pagesDone = 1
    /\ status[1] = 200

\* C14 (fetchNvdDataChunk): when updateFetchMetadata throws, the invocation
\* ends with status 500 and an error body, reports no summary (no hasMore) and
\* has requested no further page.
C14_MetadataWriteFailureAborts ==
    fault[1] = "metaWrite"
        => /\ pc[1] = "done"
           /\ status[1] = 500
           /\ err[1]
           /\ ~hasMore[1]
           /\ reqs[1] = 1

C14_Witness ==
    /\ fault[1] = "metaWrite"
    /\ succ[1] = PageSize
    /\ total > PageSize

\* C15 (storeVulnerabilitiesInD1 on the table): when no upsert throws, the
\* rows after the second application of the function to the same list are the
\* rows after the first, and every cve_id of the list has exactly one row.
C15_IdempotentUpsert ==
    (uApplied = 2 /\ ~uFailed)
        => /\ uRows = uOnce
           /\ \A j \in 1..Len(uList) :
                 Cardinality({i \in 1..Len(uRows) : uRows[i].cve_id = uList[j].cve_id}) = 1

\* The list names one cve_id twice with different data, and a second cve_id;
\* the table held a row before.
C15_Witness ==
    /\ uApplied = 2
    /\ ~uFailed
    /\ Len(uRows) = 2
    /\ uRows[1].created_at = OldRow.created_at
    /\ \E i, j \in 1..Len(uList) :
          /\ i < j
          /\ uList[i].cve_id = uList[j].cve_id
          /\ uList[i].data # uList[j].data

\* C16 (fetchNvdData, storeVulnerabilitiesInFaunaDB): the collection never
\* holds two documents of one cve_id.
C16_OneLiveDocument ==
    \A id \in Ids : faunaDocs[id] <= 1

\* C17 (storeVulnerabilitiesInD1): once the insert loops are over, every
\* record of the page with a cveId went through exactly one upsert attempt and
\* no other id through any, whatever upserts failed; and an invocation that
\* answers 500 does so for another reason than a failed upsert.
C17_EveryRecordAttemptedOnce ==
    /\ pc[1] = "storeMeta"
          => \A id \in Ids :
                attempts[1][id] = (IF id \in PageIds(nsi[1]) THEN 1 ELSE 0)
    /\ (pc[1] = "done" /\ status[1] = 500)
          => fault[1] \in {"garbled", "metaWrite", "count"}

\* The first upsert of the page failed, the loops went on over a sub-batch
\* boundary and a later upsert succeeded.
C17_Witness ==
    /\ pc[1] = "storeMeta"
    /\ sinkFailed
    /\ Len(ProcessedData(nsi[1])) > BatchSize
    /\ vulns[ProcessedData(nsi[1])[1]] = 0
    /\ succ[1] >= 1

\* C18 (fetch_metadata): an invocation that stored at least one record and
\* answered with its summary leaves last_success_time at its own fetch time.
C18_LastSuccessTimeTracksSuccess ==
    (Succeeded(1) /\ succ[1] > 0) => meta.lst = clock

\* C19 (fetch_metadata): no step decreases items_fetched.
C19_ItemsFetchedMonotone ==
    [][meta'.items >= meta.items]_vars

\* A later invocation rewrote the row an earlier one had inserted.
C19_Witness ==
    /\ metaAtStart[1].present
    /\ meta.lft > metaAtStart[1].lft
    /\ pc[1] = "count"

\* C20 (fetchNvdDataChunk, five full pages upstream, D1 working, one page per
\* invocation): every request is for the first page not yet checkpointed, and
\* an invocation that answers with its summary leaves next_start_index at the
\* number of checkpointed pages times PageSize and reports hasMore exactly
\* while pages remain; in particular after three pages next_start_index is
\* 3 * PageSize with hasMore, and after five hasMore is false.
C20_BudgetBoundary ==
    total = 5 * PageSize
        => /\ pc[1] \in {"fetch", "store", "storeMeta", "advance"}
                 => nsi[1] = pagesDone * PageSize
           /\ Succeeded(1)
                 => /\ meta.nsi = pagesDone * PageSize
                    /\ nsi[1] = (pagesDone - 1) * PageSize
                    /\ hasMore[1] = (pagesDone < 5)
           /\ (Succeeded(1) /\ pagesDone = 3)
                 => /\ meta.nsi = 3 * PageSize
                    /\ hasMore[1]

C20_Witness ==
    /\ total = 5 * PageSize
    /\ pagesDone = 5
    /\ Succeeded(1)
    /\ ~hasMore[1]
    /\ SinkComplete

\* C21 (fetchNvdDataChunk): an invocation issues at most one upstream request,
\* and one that answers with its summary has issued exactly one and reports
\* hasMore as computed from that page.
C21_OneRequestPerInvocation ==
    /\ reqs[1] <= 1
    /\ Succeeded(1) => (reqs[1] = 1 /\ hasMore[1] = Result(1).hasMore)

C21_Witness ==
    /\ Succeeded(1)
    /\ hasMore[1]
    /\ reqs[1] = 1
    /\ clock = MaxInvocations

\* C22 (fetchNvdDataChunk): a successful answer with zero records makes the
\* invocation report hasMore = false, whatever totalResults says.
C22_EmptyPageIsDone ==
    (Succeeded(1) /\ Returned(nsi[1]) = 0) => ~hasMore[1]

\* C23 (fetchNvdDataChunk): a full page with one item without cve id and the
\* others valid, all upserts succeeding, ends with as many upserted records as
\* valid items and an invalid count of one in the result.
C23_InvalidRecordIsolation ==
    (/\ Succeeded(1)
     /\ Len(Vulnerabilities(nsi[1])) = PageSize
     /\ NoId \in {Vulnerabilities(nsi[1])[j] : j \in 1..PageSize}
     /\ succ[1] = PageSize - 1)
        => /\ Result(1).processedEntries = PageSize - 1
           /\ \A id \in PageIds(nsi[1]) : vulns[id] = 1
           /\ "invalidEntries" \in DOMAIN Result(1)
           /\ Result(1).invalidEntries = 1

\* C24 (fetch): a step that ends with status 404 ends the invocation without
\* an upstream request and leaves vulnerabilities and fetch_metadata as they
\* were.
C24_NotFoundNoEffect ==
    [][status'[1] = 404
          => /\ pc'[1] = "done"
             /\ reqs'[1] = 0
             /\ meta' = meta
             /\ vulns' = vulns]_vars

\* A 404 after an earlier invocation had stored a page.
C24_Witness ==
    /\ status[1] = 404
    /\ pc[1] = "done"
    /\ meta.present
    /\ \E id \in Ids : vulns[id] = 1

\* C25 (sendToLogQueue): the sendBatch calls of one drain, failed ones
\* included, never number more than MAX_SUBREQUESTS.
C25_SendBatchCallsCapped ==
    calls <= MAX_SUBREQUESTS

\* C26 (sendToLogQueue): after a drain that ended on the cap, logQueue is
\* empty.
C26_CapDropsBuffered ==
    (lpc = "idle" /\ capStopped) => logQueue = <<>>

\* C27 (sendToLogQueue): sendBatch is called at most MAX_RETRIES times for one
\* batch; a batch is given up only after that many calls, its entries are
\* neither sent nor put back, and the drain goes on with the next batch when
\* the queue holds one (and returns when it holds none).
C27_RetryThenSkip ==
    [][/\ batchCalls' <= MAX_RETRIES
       /\ discarded' # discarded
             => /\ batchCalls = MAX_RETRIES
                /\ discarded' = discarded \cup Elems(batch)
                /\ Elems(batch) \cap sent' = {}
                /\ Elems(batch) \cap Elems(logQueue') = {}
                /\ IF Len(logQueue) > 0
                   THEN /\ lpc' = "sending"
                        /\ batch' = Spliced(logQueue)
                        /\ batchCalls' = 1
                   ELSE lpc' = "idle"]_vars

\* The first batch failed three times and the next one was delivered by the
\* same drain.
C27_Witness ==
    /\ lpc = "idle"
    /\ discarded = {1}
    /\ 2 \in sent
    /\ calls = MAX_RETRIES + 1

\* C28 (sendToLogQueue): the draining call never throws, and the handler that
\* awaited it answers the status it had decided on.
C28_LoggingIsBestEffort ==
    /\ ~lthrew
    /\ lreply # 0 => lreply = lplan

\* Every sendBatch of the drain failed and the handler answered 200.
C28_Witness ==
    /\ lpc = "idle"
    /\ lreply = 200
    /\ calls = MAX_RETRIES
    /\ sent = {}
    /\ discarded = {1}

\* The item has no CVE id: it is null or undefined, has no cve object, or its
\* cve.id is missing or empty.
LacksId(it) == it.kind # "object" \/ it.cve # "object" \/ it.id \in {"absent", "empty"}

\* C29 (processVulnerabilityItem): for an item without CVE id the call
\* returns null and does not throw.
C29_NoIdIsInvalid ==
    (applied /\ LacksId(rawItem)) => out.tag = "null"

C29_Witness ==
    /\ applied
    /\ rawItem.kind = "null"
    /\ out.tag = "null"

\* C30 (processVulnerabilityItem): for an item with a CVE id the call does
\* not throw, whatever the shape of descriptions, metrics, weaknesses and
\* references.
C30_NormalizerIsTotal ==
    (applied /\ ~LacksId(rawItem)) => out.tag # "throw"

C39_SeverityFromSameVersion ==
    (applied /\ out.tag = "record")
        => /\ (out.baseScore = "s31" /\ out.vectorString = "vec31")
                 => out.baseSeverity = OrNull(Val(rawItem.sev31))
           /\ (out.baseScore = "s2" /\ out.vectorString = "vec2")
                 => out.baseSeverity = OrNull(Val(rawItem.sev2))

\* C34 (sendToLogQueue): isSendingLogs is true exactly while one call is in
\* its drain loop: never two drains at once, and the flag is false again once
\* the drain has ended, whichever way it ended.
C34_OneDrainAtATime ==
    /\ drains \in {0, 1}
    /\ isSendingLogs <=> drains = 1
    /\ isSendingLogs <=> lpc # "idle"

\* A call arrived while a drain was awaiting its sendBatch and did not start a
\* second drain.
C34_Witness ==
    /\ isSendingLogs
    /\ drains = 1
    /\ pushedBusy # {}
    /\ lpc = "sending"

\* C35 (sendToLogQueue): when a drain ends without having hit the subrequest
\* cap the queue is empty, and every entry pushed while a drain was running has
\* been put in a batch (sent, or given up after MAX_RETRIES attempts).
C35_NoEntryStranded ==
    (lpc = "idle" /\ ~capStopped)
        => /\ logQueue = <<>>
           /\ pushedBusy \subseteq (sent \cup discarded)

\* Entries pushed during a drain were sent by that drain, which ended below
\* the cap.
C35_Witness ==
    /\ lpc = "idle"
    /\ ~capStopped
    /\ calls > 0
    /\ pushedBusy # {}
    /\ pushedBusy \subseteq sent
    /\ logQueue = <<>>

\* C36 (sendToLogQueue): a batch that sendBatch accepts holds no entry sent
\* before, and a batch newly taken from the queue holds no entry of an earlier
\* batch and none that is still in the queue.
C36_NoDoubleDelivery ==
    [][/\ (subrequestsMade' = subrequestsMade + 1)
             => /\ Elems(batch) \cap sent = {}
                /\ sent' = sent \cup Elems(batch)
       /\ (batchCounter' # batchCounter)
             => /\ Elems(batch') \cap (Elems(batch) \cup sent' \cup discarded') = {}
                /\ Elems(batch') \cap Elems(logQueue') = {}
                /\ Len(batch') = Cardinality(Elems(batch'))]_vars

\* Three batches of distinct entries have been sent, none given up.
C36_Witness ==
    /\ batchCounter >= 3
    /\ Cardinality(sent) >= 3
    /\ discarded = {}
    /\ lpc = "idle"

\* C37 (sendToLogQueue): a call without a queue binding changes neither
\* logQueue, isSendingLogs nor batchCounter and calls sendBatch not at all.
C37_UnboundCallNoEffect ==
    [][(~hasQueue /\ nextEntry' # nextEntry)
          => /\ logQueue' = logQueue
             /\ isSendingLogs' = isSendingLogs
             /\ batchCounter' = batchCounter
             /\ calls' = calls
             /\ lpc' = lpc]_vars

\* Every call was made without a binding and the logger is as it started.
C37_Witness ==
    /\ ~hasQueue
    /\ nextEntry = MaxEntries
    /\ logQueue = <<>>
    /\ ~isSendingLogs
    /\ batchCounter = 0
    /\ calls = 0

C33_CheckpointMonotonic ==
    (pc[1] = "done" /\ meta.present /\ metaAtStart[1].present)
        => meta.nsi >= metaAtStart[1].nsi

\* C32 (fetchNvdDataChunk, overlapping invocations, resultsPerPage counting
\* the records returned): every offset below the persisted next_start_index
\* belongs to a page that some invocation fetched and handed to
\* storeVulnerabilitiesInD1.
C32_NoPageSkipped ==
    meta.present => \A k \in 0..(meta.nsi - 1) : k \in fetched

\* Two invocations ran at once and the checkpoint has passed the first page.
C32_Witness ==
    /\ pc[1] \notin {"idle", "done", "killed"}
    /\ pc[2] \notin {"idle", "done", "killed"}
    /\ meta.present
    /\ meta.nsi > PageSize
    /\ \A k \in 0..(meta.nsi - 1) : k \in fetched

====
